---- MODULE Spec2Model ----
(***************************************************************************)
(* One session of the SOCKS5 proxy of socks.py: SocksProxy.handle driving  *)
(* one accepted client connection, and the two forward_tcp tasks it spawns.*)
(* Bytes are naturals 0..255, byte strings are sequences of bytes.  Every  *)
(* recv draws what the transport delivers: at most the requested number of *)
(* bytes, nothing at end of stream, or a fault.                            *)
(***************************************************************************)
EXTENDS Naturals, Sequences, FiniteSets, TLC

\* ---------------------------------------------------------------- bounds
MaxMethods == 2
MaxLen == 2
MaxRelayBytes == 2

\* ------------------------------------------------------ program constants
SOCKS_VERSION == 5
SUBNEG_VERSION == 1
USERPASS == 2
AUTH_OK == 0
AUTH_FAIL == 255
CMD_CONNECT == 1
ATYP_IPV4 == 1
ATYP_DOMAIN == 3
REP_SUCCESS == 0
REP_FAILED == 5
CHUNK == 4096

\* ------------------------------------------------------------ byte helpers
\* a local that is not yet bound is the empty tuple, a bound one <<value>>
Unbound == <<>>
Bound(v) == <<v>>

Min(a, b) == IF a < b THEN a ELSE b

\* all byte strings over alphabet S of length lo..hi
SeqsOf(S, lo, hi) == UNION {[1..n -> S] : n \in lo..hi}

IsPrefix(s, t) == Len(s) <= Len(t) /\ SubSeq(t, 1, Len(s)) = s

\* what one recv(n) can return when the peer has sent bytes of alphabet S:
\* 0 bytes (end of stream, or n = 0), or 1..n bytes (a short read is allowed)
RecvResults(n, S) == SeqsOf(S, 0, n)

\* the results R of a recv on a stream: once a read has returned no byte
\* (end of stream) every later read returns no byte either
AtEof(eof, R) == IF eof THEN {<<>>} ELSE R

\* struct.pack("!H", p)
PackH(p) == <<p \div 256, p % 256>>

\* struct.unpack("!H", b)[0]
UnpackH(b) == b[1] * 256 + b[2]

\* struct.pack("!I", a)
PackI(a) == <<a \div 16777216, (a \div 65536) % 256, (a \div 256) % 256, a % 256>>

\* struct.unpack("!I", b)[0]
UnpackI(b) == b[1] * 16777216 + b[2] * 65536 + b[3] * 256 + b[4]

\* socket.inet_ntoa: 4 packed bytes to the dotted quad (kept as its 4 numbers)
inet_ntoa(b) == [a |-> b[1], b |-> b[2], c |-> b[3], d |-> b[4]]

\* socket.inet_aton: dotted quad to 4 packed bytes
inet_aton(q) == <<q.a, q.b, q.c, q.d>>

\* bytes.decode('utf-8') accepts b: one- and two-byte forms are well formed;
\* every other lead byte the model draws (a bare continuation byte, a lead
\* byte with no continuation) raises UnicodeDecodeError.
RECURSIVE Utf8Valid(_)
Utf8Valid(b) ==
    IF b = <<>> THEN TRUE
    ELSE IF b[1] < 128 THEN Utf8Valid(Tail(b))
    ELSE IF b[1] >= 194 /\ b[1] <= 223 /\ Len(b) >= 2
         THEN b[2] >= 128 /\ b[2] <= 191 /\ Utf8Valid(Tail(Tail(b)))
    ELSE FALSE

\* bytes.decode('utf-8'): the code points of a well-formed byte string
RECURSIVE Utf8Decode(_)
Utf8Decode(b) ==
    IF b = <<>> THEN <<>>
    ELSE IF b[1] < 128 THEN <<b[1]>> \o Utf8Decode(Tail(b))
    ELSE <<(b[1] - 192) * 64 + (b[2] - 128)>> \o Utf8Decode(Tail(Tail(b)))

\* ------------------------------------------------------------------ inputs
HeaderInputs == {<<v, n>> : v \in {4, 5}, n \in 0..MaxMethods}
MethodBytes == {0, 2}
AuthVersionBytes == {1, 5}
NameBytes == {97, 195, 169}
RequestInputs ==
    {<<v, c, 0, t>> : v \in {4, 5}, c \in {1, 2}, t \in {1, 3, 4}}
AddressInput == <<10, 0, 0, 2>>
PortInput == <<1, 187>>
RelayBytes == {7, 8}

\* the prefixes of s of length lo..Len(s): a read of Len(s) bytes cut short
Prefixes(s, lo) == {SubSeq(s, 1, n) : n \in lo..Len(s)}

\* configuration: --username, --password, --eip
NoBind == [a |-> 0, b |-> 0, c |-> 0, d |-> 0]
Configs ==
    [username : {<<233>>}, password : {<<97>>},
     eip : {NoBind, [a |-> 10, b |-> 0, c |-> 0, d |-> 1]}]

\* what the system picks for an outbound socket that was not bound
OsLocalAddr == [a |-> 100, b |-> 64, c |-> 0, d |-> 1]
LocalPorts == {4660}

VARIABLES
    self,           \* SocksProxy fields: username, password, eip
    pc,             \* position of handle
    header,         \* the bytes of the greeting header as received
    err,            \* the exception that left handle, or "none"
    connOpen,       \* client socket not yet closed by the server
    connEof,        \* a read on the client socket has hit the end of stream
    sent,           \* bytes the handler has written to the client
    nmethods, methods,
    auth,           \* locals of verify_credentials
    req,            \* locals of handle decoded from the connect request
    remote,         \* outbound socket: state, local name, closed or not
    reply,
    job,            \* the two forward_tcp tasks
    relay           \* per direction: bytes read from src, bytes written to dst

vars == <<self, pc, header, err, connOpen, connEof, sent, nmethods, methods, auth, req, remote,
          reply, job, relay>>

\* the locals of verify_credentials before the call and after its return
\* (result is what the call returned to handle)
NoAuthLocals(result) ==
    [version |-> 0, username_len |-> 0, username |-> <<>>,
     password_len |-> 0, password |-> <<>>, result |-> result]

TypeOK ==
    /\ self \in Configs
    /\ connOpen \in BOOLEAN
    /\ job \in [1..2 -> {"unspawned", "recv", "send", "done"}]

Init ==
    /\ self \in Configs
    /\ pc = "header"
    /\ header = <<>>
    /\ err = "none"
    /\ connOpen = TRUE
    /\ connEof = FALSE
    /\ sent = <<>>
    /\ nmethods = 0
    /\ methods = <<>>
    /\ auth = NoAuthLocals("pending")
    /\ req = [version |-> 0, cmd |-> 0, address_type |-> 0,
              address |-> Unbound, port |-> 0]
    /\ remote = [state |-> "none", name |-> Unbound, peer |-> Unbound,
                 closed |-> FALSE]
    /\ reply = <<>>
    /\ job = [d \in 1..2 |-> "unspawned"]
    /\ relay = [d \in 1..2 |->
                  [data |-> <<>>, read |-> <<>>, wrote |-> <<>>, ended |-> "no"]]

\* mutant of Raise: the handler task dies and the client socket stays open
Raise_leak(e) ==
    /\ pc' = "aborted"
    /\ err' = e
    /\ connOpen' = connOpen

\* An exception leaves handle: curio's per-client wrapper, entered by
\* tcp_server, closes the client socket when the handler task ends.
Raise(e) ==
    /\ pc' = "aborted"
    /\ err' = e
    /\ connOpen' = FALSE

\* handle returns: the same wrapper closes the client socket.
Return ==
    /\ pc' = "returned"
    /\ err' = err
    /\ connOpen' = FALSE

Goto(l) ==
    /\ pc' = l
    /\ UNCHANGED <<err, connOpen>>

\* conn.sendall(msg) by the handler: everything is written, or the transport
\* faults after a proper prefix was written.
SendAll(msg, next) ==
    \/ /\ sent' = sent \o msg
       /\ Goto(next)
    \/ /\ \E n \in 0..(Len(msg) - 1) : sent' = sent \o SubSeq(msg, 1, n)
       /\ Raise("OSError")

\* mutant of GreetingAccepted: the method count is not checked
GreetingAccepted_anycount(version, n) == version = SOCKS_VERSION

\* assert version == SOCKS_VERSION; assert nmethods > 0
GreetingAccepted(version, n) == version = SOCKS_VERSION /\ n > 0

\* header = await conn.recv(2); unpack; the two asserts
RecvHeader ==
    /\ pc = "header"
    /\ UNCHANGED <<self, connEof, sent, methods, auth, req, remote, reply, job, relay>>
    /\ \/ /\ Raise("OSError")
          /\ UNCHANGED <<header, nmethods>>
       \/ \E h \in HeaderInputs : \E received \in AtEof(connEof, Prefixes(h, 0)) :
            /\ header' = received
            /\ IF Len(received) # 2
               THEN Raise("struct.error") /\ UNCHANGED nmethods
               ELSE /\ nmethods' = received[2]
                    /\ IF ~GreetingAccepted(received[1], received[2])
                       THEN Raise("AssertionError")
                       ELSE Goto("methods")

\* get_available_methods: one turn of the loop, methods.append(ord(recv(1)))
RecvMethod ==
    /\ pc = "methods"
    /\ UNCHANGED <<self, header, connEof, sent, nmethods, auth, req, remote, reply, job, relay>>
    /\ \/ /\ Raise("OSError")
          /\ UNCHANGED methods
       \/ \E b \in AtEof(connEof, RecvResults(1, MethodBytes)) :
            IF Len(b) # 1
            THEN Raise("TypeError") /\ UNCHANGED methods
            ELSE /\ methods' = Append(methods, b[1])
                 /\ Goto(IF Len(methods) + 1 = nmethods THEN "select" ELSE "methods")

\* mutant of OffersUserPass: every greeting is accepted
OffersUserPass_always(ms) == TRUE

\* 2 in set(methods)
OffersUserPass(ms) == USERPASS \in {ms[i] : i \in 1..Len(ms)}

\* mutant of MethodSelection: selects "no authentication" (0)
MethodSelection_noauth == <<SOCKS_VERSION, 0>>

\* struct.pack("!BB", SOCKS_VERSION, 2)
MethodSelection == <<SOCKS_VERSION, USERPASS>>

\* if 2 not in set(methods): conn.close() (never awaited, so it is the
\* handler's return that closes); return  -- else send the welcome message
SelectMethod ==
    /\ pc = "select"
    /\ UNCHANGED <<self, header, connEof, nmethods, methods, auth, req, remote, reply, job, relay>>
    /\ IF ~OffersUserPass(methods)
       THEN Return /\ UNCHANGED sent
       ELSE SendAll(MethodSelection, "auth_version")

\* version = ord(await conn.recv(1)); assert version == 1
RecvAuthVersion ==
    /\ pc = "auth_version"
    /\ UNCHANGED <<self, header, connEof, sent, nmethods, methods, req, remote, reply, job, relay>>
    /\ \/ Raise("OSError") /\ UNCHANGED auth
       \/ \E b \in AtEof(connEof, RecvResults(1, AuthVersionBytes)) :
            IF Len(b) # 1
            THEN Raise("TypeError") /\ UNCHANGED auth
            ELSE /\ auth' = [auth EXCEPT !.version = b[1]]
                 /\ IF b[1] # SUBNEG_VERSION
                    THEN Raise("AssertionError")
                    ELSE Goto("username_len")

\* username_len = ord(await conn.recv(1)), password_len likewise
RecvLen(at, field, next) ==
    /\ pc = at
    /\ UNCHANGED <<self, header, connEof, sent, nmethods, methods, req, remote, reply, job, relay>>
    /\ \/ Raise("OSError") /\ UNCHANGED auth
       \/ \E b \in AtEof(connEof, RecvResults(1, 0..MaxLen)) :
            IF Len(b) # 1
            THEN Raise("TypeError") /\ UNCHANGED auth
            ELSE /\ auth' = [auth EXCEPT ![field] = b[1]]
                 /\ Goto(next)

\* username = (await conn.recv(username_len)).decode('utf-8'), password
\* likewise.  This is the one read of the handshake after which the handler
\* goes on when it returned no byte: for a length above 0 that is the end of
\* the stream.
RecvName(at, lenfield, field, next) ==
    /\ pc = at
    /\ UNCHANGED <<self, header, sent, nmethods, methods, req, remote, reply, job, relay>>
    /\ \/ Raise("OSError") /\ UNCHANGED <<auth, connEof>>
       \/ \E b \in AtEof(connEof, RecvResults(auth[lenfield], NameBytes)) :
            /\ connEof' = (connEof \/ (auth[lenfield] > 0 /\ b = <<>>))
            /\ IF ~Utf8Valid(b)
               THEN Raise("UnicodeDecodeError") /\ UNCHANGED auth
               ELSE /\ auth' = [auth EXCEPT ![field] = Utf8Decode(b)]
                    /\ Goto(next)

RecvUsernameLen == RecvLen("username_len", "username_len", "username")
RecvUsername == RecvName("username", "username_len", "username", "password_len")
RecvPasswordLen == RecvLen("password_len", "password_len", "password")
RecvPassword == RecvName("password", "password_len", "password", "auth_reply")

\* mutant of CredentialsMatch: the password is not compared
CredentialsMatch_useronly(username, password) == username = self.username

\* the comparison of verify_credentials
CredentialsMatch(username, password) ==
    username = self.username /\ password = self.password

\* the tail of verify_credentials and "if not ...: return" of handle
AuthReply ==
    /\ pc = "auth_reply"
    /\ UNCHANGED <<self, header, connEof, nmethods, methods, req, remote, reply, job, relay>>
    /\ IF CredentialsMatch(auth.username, auth.password)
       THEN \/ /\ sent' = sent \o <<auth.version, AUTH_OK>>
               /\ auth' = NoAuthLocals("ok")
               /\ Goto("request")
            \/ /\ \E n \in 0..1 : sent' = sent \o SubSeq(<<auth.version, AUTH_OK>>, 1, n)
               /\ auth' = NoAuthLocals("pending")
               /\ Raise("OSError")
       ELSE \/ /\ sent' = sent \o <<auth.version, AUTH_FAIL>>
               /\ auth' = NoAuthLocals("fail")
               /\ Return
            \/ /\ \E n \in 0..1 : sent' = sent \o SubSeq(<<auth.version, AUTH_FAIL>>, 1, n)
               /\ auth' = NoAuthLocals("pending")
               /\ Raise("OSError")

\* version, cmd, _, address_type = struct.unpack("!BBBB", await conn.recv(4))
\* assert version == SOCKS_VERSION
RecvRequest ==
    /\ pc = "request"
    /\ UNCHANGED <<self, header, connEof, sent, nmethods, methods, auth, remote, reply, job, relay>>
    /\ \/ Raise("OSError") /\ UNCHANGED req
       \/ \E r \in RequestInputs : \E b \in AtEof(connEof, Prefixes(r, 0)) :
            IF Len(b) # 4
            THEN Raise("struct.error") /\ UNCHANGED req
            ELSE /\ req' = [req EXCEPT !.version = b[1], !.cmd = b[2],
                                       !.address_type = b[4]]
                 /\ IF b[1] # SOCKS_VERSION
                    THEN Raise("AssertionError")
                    ELSE Goto("address")

\* the if/elif on address_type: IPv4 reads 4 bytes; the domain branch
\* subscripts the coroutine conn.recv(1) before awaiting it (TypeError, no
\* read happens); any other type binds no address and falls through
RecvAddress ==
    /\ pc = "address"
    /\ UNCHANGED <<self, header, connEof, sent, nmethods, methods, auth, remote, reply, job, relay>>
    /\ \/ /\ req.address_type = ATYP_IPV4
          /\ \/ Raise("OSError") /\ UNCHANGED req
             \/ \E b \in AtEof(connEof, Prefixes(AddressInput, 0)) :
                  IF Len(b) # 4
                  THEN Raise("OSError") /\ UNCHANGED req
                  ELSE /\ req' = [req EXCEPT !.address = Bound(inet_ntoa(b))]
                       /\ Goto("port")
       \/ /\ req.address_type = ATYP_DOMAIN
          /\ Raise("TypeError")
          /\ UNCHANGED req
       \/ /\ req.address_type \notin {ATYP_IPV4, ATYP_DOMAIN}
          /\ Goto("port")
          /\ UNCHANGED req

\* port = struct.unpack('!H', await conn.recv(2))[0]
RecvPort ==
    /\ pc = "port"
    /\ UNCHANGED <<self, header, connEof, sent, nmethods, methods, auth, remote, reply, job, relay>>
    /\ \/ Raise("OSError") /\ UNCHANGED req
       \/ \E b \in AtEof(connEof, Prefixes(PortInput, 0)) :
            IF Len(b) # 2
            THEN Raise("struct.error") /\ UNCHANGED req
            ELSE /\ req' = [req EXCEPT !.port = UnpackH(b)]
                 /\ Goto("connect")

\* mutant of success_reply: reports the target the client asked for
success_reply_target(address_type, bind_address) ==
    <<SOCKS_VERSION, REP_SUCCESS, 0, address_type>>
        \o inet_aton(remote'.peer[1].host)
        \o PackH(remote'.peer[1].port)

\* the reply packed on the success path of the try block
success_reply(address_type, bind_address) ==
    <<SOCKS_VERSION, REP_SUCCESS, 0, address_type>>
        \o PackI(UnpackI(inet_aton(bind_address.host)))
        \o PackH(bind_address.port)

\* mutant of generate_failed_reply: always an IPv4 address type
generate_failed_reply_ipv4(address_type, error_number) ==
    <<SOCKS_VERSION, error_number, 0, ATYP_IPV4>> \o PackI(0) \o PackH(0)

generate_failed_reply(address_type, error_number) ==
    <<SOCKS_VERSION, error_number, 0, address_type>> \o PackI(0) \o PackH(0)

\* the local name of the outbound socket once connected
LocalNames ==
    {[host |-> IF self.eip # NoBind THEN self.eip ELSE OsLocalAddr, port |-> p] :
        p \in LocalPorts}

\* mutant of IsConnect: every command opens an outbound connection
IsConnect_any(cmd) == TRUE

\* if cmd == 1:  # CONNECT
IsConnect(cmd) == cmd = CMD_CONNECT

\* the try block: socket, optional bind, connect, getsockname, pack; any
\* exception inside it is caught and turned into the failed reply
Connect ==
    /\ pc = "connect"
    /\ UNCHANGED <<self, header, connEof, sent, nmethods, methods, auth, job, relay>>
    /\ IF ~IsConnect(req.cmd)
       THEN Return /\ UNCHANGED <<req, remote, reply>>
       ELSE /\ Goto("send_reply")
            /\ LET failed == generate_failed_reply(req.address_type, REP_FAILED)
                   made == IF self.eip # NoBind THEN "bound" ELSE "created"
               IN  \/ \* socket.socket raises
                      /\ reply' = failed
                      /\ UNCHANGED <<req, remote>>
                   \/ \* remote.bind raises
                      /\ self.eip # NoBind
                      /\ remote' = [remote EXCEPT !.state = "created"]
                      /\ reply' = failed
                      /\ UNCHANGED req
                   \/ \* address was never bound: UnboundLocalError
                      /\ req.address = Unbound
                      /\ remote' = [remote EXCEPT !.state = made]
                      /\ reply' = failed
                      /\ UNCHANGED req
                   \/ \* remote.connect raises
                      /\ req.address # Unbound
                      /\ remote' = [remote EXCEPT !.state = "refused"]
                      /\ reply' = failed
                      /\ UNCHANGED req
                   \/ \* connected
                      /\ req.address # Unbound
                      /\ \E bind_address \in LocalNames :
                           /\ remote' = [remote EXCEPT
                                  !.state = "connected",
                                  !.name = Bound(bind_address),
                                  !.peer = Bound([host |-> req.address[1],
                                                  port |-> req.port])]
                           /\ req' = [req EXCEPT !.port = bind_address.port]
                           /\ reply' = success_reply(req.address_type, bind_address)

\* mutant of SendReply: the handler goes back to read another request
SendReply_again ==
    /\ pc = "send_reply"
    /\ UNCHANGED <<self, header, connEof, nmethods, methods, auth, req, remote, reply, job, relay>>
    /\ SendAll(reply, "request")

\* await conn.sendall(reply)
SendReply ==
    /\ pc = "send_reply"
    /\ UNCHANGED <<self, header, connEof, nmethods, methods, auth, req, remote, reply, job, relay>>
    /\ SendAll(reply, "spawn")

\* mutant of StartRelay: the status byte of the reply is not looked at
StartRelay_anyreply(rep, cmd) == cmd = CMD_CONNECT

\* if reply[1] == 0 and cmd == 1: spawn both forward_tcp tasks
StartRelay(rep, cmd) == rep[2] = REP_SUCCESS /\ cmd = CMD_CONNECT

Spawn ==
    /\ pc = "spawn"
    /\ UNCHANGED <<self, header, connEof, sent, nmethods, methods, auth, req, remote, reply, relay>>
    /\ Goto("join1")
    /\ IF StartRelay(reply, req.cmd)
       THEN job' = [d \in 1..2 |-> "recv"]
       ELSE UNCHANGED job

\* mutant of Joined: only the first task is waited for
Joined_first(j) == job[1] = "done"

\* job.join() returns once the task has ended
Joined(j) == job[j] = "done"

\* await job1.join(): job1 is unbound when nothing was spawned
Join1 ==
    /\ pc = "join1"
    /\ UNCHANGED <<self, header, connEof, sent, nmethods, methods, auth, req, remote, reply, job, relay>>
    /\ IF job[1] = "unspawned"
       THEN Raise("UnboundLocalError")
       ELSE Joined(1) /\ Goto("join2")

\* await job2.join()
Join2 ==
    /\ pc = "join2"
    /\ UNCHANGED <<self, header, connEof, sent, nmethods, methods, auth, req, remote, reply, job, relay>>
    /\ Joined(2)
    /\ Goto("close")

\* await conn.close(), then handle returns
Close ==
    /\ pc = "close"
    /\ UNCHANGED <<self, header, connEof, sent, nmethods, methods, auth, req, remote, reply, job, relay>>
    /\ Return

\* mutant of AfterFault: a fault in one direction ends both tasks
AfterFault_both(d) == [x \in 1..2 |-> "done"]

\* except: logging.exception(...); break  -- only this task ends
AfterFault(d) == [job EXCEPT ![d] = "done"]

\* forward_tcp, first half of a turn: data = await src.recv(4096)
ForwardRecv(d) ==
    /\ job[d] = "recv"
    /\ UNCHANGED <<self, header, connEof, pc, err, connOpen, sent, nmethods, methods, auth, req,
                   remote, reply>>
    /\ \/ \E data \in AtEof(d = 1 /\ connEof,
                           RecvResults(Min(CHUNK, MaxRelayBytes - Len(relay[d].read)),
                                       RelayBytes)) :
            /\ relay' = [relay EXCEPT ![d].data = data,
                                      ![d].read = relay[d].read \o data]
            /\ job' = [job EXCEPT ![d] = "send"]
       \/ /\ relay' = [relay EXCEPT ![d].ended = "fault"]
          /\ job' = AfterFault(d)

\* mutant of Written: the end of stream is passed on as a byte
Written_eofmark(wrote, data) == wrote \o (IF data = <<>> THEN <<0>> ELSE data)

\* mutant of Written: a chunk of several bytes loses its first byte
Written_dropfirst(wrote, data) ==
    wrote \o (IF Len(data) > 1 THEN Tail(data) ELSE data)

\* what dst has received from this direction after sendall wrote `data`
Written(wrote, data) == wrote \o data

\* mutant of AfterSend: the loop does not stop at the end of the stream
AfterSend_nobreak(data) == "recv"

\* if not data: break  -- otherwise the loop reads again
AfterSend(data) == IF data = <<>> THEN "done" ELSE "recv"

\* forward_tcp, second half: await dst.sendall(data); if not data: break
ForwardSend(d) ==
    /\ job[d] = "send"
    /\ UNCHANGED <<self, header, connEof, pc, err, connOpen, sent, nmethods, methods, auth, req,
                   remote, reply>>
    /\ LET data == relay[d].data
       IN  \/ /\ relay' = [relay EXCEPT
                     ![d].wrote = Written(relay[d].wrote, data),
                     ![d].ended = IF data = <<>> THEN "eof" ELSE "no"]
              /\ job' = [job EXCEPT ![d] = AfterSend(data)]
           \/ /\ \E n \in 0..(Len(data) - 1) :
                   relay' = [relay EXCEPT
                     ![d].wrote = Written(relay[d].wrote, SubSeq(data, 1, n)),
                     ![d].ended = "fault"]
              /\ job' = AfterFault(d)

Next ==
    \/ RecvHeader
    \/ RecvMethod
    \/ SelectMethod
    \/ RecvAuthVersion
    \/ RecvUsernameLen
    \/ RecvUsername
    \/ RecvPasswordLen
    \/ RecvPassword
    \/ AuthReply
    \/ RecvRequest
    \/ RecvAddress
    \/ RecvPort
    \/ Connect
    \/ SendReply
    \/ Spawn
    \/ Join1
    \/ Join2
    \/ Close
    \/ \E d \in 1..2 : ForwardRecv(d)
    \/ \E d \in 1..2 : ForwardSend(d)

Spec == Init /\ [][Next]_vars

\* The curio kernel runs every ready task in turn, so the handler's joins and
\* close and each forward_tcp task take their next step once it is possible.
\* A source of the model yields at most MaxRelayBytes bytes: a recv that is
\* scheduled again and again ends in a zero-byte read or a fault.
SpecFair ==
    /\ Spec
    /\ WF_vars(Join1) /\ WF_vars(Join2) /\ WF_vars(Close)
    /\ \A d \in 1..2 : WF_vars(ForwardRecv(d)) /\ WF_vars(ForwardSend(d))

\* ------------------------------------------------------------------ claims
Terminal == {"returned", "aborted"}

\* a forward_tcp task exists or a byte went through the relay
RelayTouched ==
    \E d \in 1..2 :
        job[d] # "unspawned" \/ relay[d].read # <<>> \/ relay[d].wrote # <<>>

\* some step of the handshake failed
HandshakeFailed ==
    \/ err # "none"
    \/ auth.result = "fail"
    \/ (pc \notin {"header", "methods"} /\ 2 \notin {methods[i] : i \in 1..Len(methods)})
    \/ (reply # <<>> /\ reply[2] # 0)
    \/ (pc = "returned" /\ req.port # 0 /\ req.cmd # 1)

\* C1: no relay direction is started and no byte is forwarded unless the
\* handler has sent, in this order, the method selection, the success auth
\* reply 01 00 and a ConnectReply with status 0; a session in which a
\* handshake step failed never starts the relay.
C1_RelayOnlyAfterHandshake ==
    /\ RelayTouched =>
          /\ auth.result = "ok"
          /\ Len(reply) = 10 /\ reply[1] = 5 /\ reply[2] = 0
          /\ sent = <<5, 2, 1, 0>> \o reply
    /\ HandshakeFailed => ~RelayTouched

C1_Witness ==
    /\ job[1] = "done" /\ job[2] = "send"
    /\ relay[1].wrote # <<>>
    /\ sent = <<5, 2, 1, 0>> \o reply

\* C2: when the greeting has version 5 and its method list contains 2, the
\* step that answers it leaves exactly 05 02 as everything sent so far and
\* the handler next reads the auth request (unless the transport faults
\* during that write, which aborts the session).
C2_SelectsUserPass ==
    [][(pc = "select" /\ 2 \in {methods[i] : i \in 1..Len(methods)}) =>
          \/ /\ sent = <<>> /\ sent' = <<5, 2>>
             /\ pc' = "auth_version" /\ connOpen'
          \/ /\ pc' = "aborted" /\ err' = "OSError"
             /\ sent' \in {<<>>, <<5>>}]_vars

C2_Witness ==
    /\ pc = "auth_version"
    /\ sent = <<5, 2>>
    /\ methods = <<0, 2>>

\* C3: when the greeting has version 5 and a non-empty method list without
\* method 2, nothing is ever sent to the client, neither by the handler nor
\* by a relay, and once the handler has acted the client socket is closed.
C3_NoMethodNoBytes ==
    (/\ pc \notin {"header", "methods"}
     /\ nmethods > 0 /\ Len(methods) = nmethods
     /\ 2 \notin {methods[i] : i \in 1..Len(methods)}) =>
        /\ sent = <<>>
        /\ relay[2].wrote = <<>>
        /\ pc \in {"select", "returned"}
        /\ pc = "returned" => (~connOpen /\ err = "none")

C3_Witness ==
    /\ pc = "returned"
    /\ methods = <<0, 0>>
    /\ sent = <<>>
    /\ ~connOpen

\* C4: for an auth request with sub-negotiation version 1 whose fields were
\* read and decoded: when username and password both equal the configured
\* ones the handler writes 01 00 and goes on to read the connect request;
\* otherwise it writes 01 FF, the client socket is closed and the handler is
\* over, so nothing more is read (a terminal handler takes no step).  A
\* transport fault during the write aborts the session instead.
C4_AuthReply ==
    [][/\ pc \notin Terminal
       /\ pc = "auth_reply" =>
            /\ auth.version = 1
            /\ \/ pc' = "aborted" /\ err' = "OSError" /\ ~connOpen'
                     /\ Len(sent') < Len(sent) + 2
               \/ IF auth.username = self.username /\ auth.password = self.password
                  THEN /\ sent' = sent \o <<1, 0>>
                       /\ pc' = "request" /\ connOpen'
                  ELSE /\ sent' = sent \o <<1, 255>>
                       /\ pc' = "returned" /\ ~connOpen'
                       /\ req' = req /\ auth'.result = "fail"]_vars

C4_Witness ==
    /\ pc = "returned"
    /\ auth.result = "fail"
    /\ sent = <<5, 2, 1, 255>>
    /\ ~connOpen

\* the connect reply is on the wire
ReplySent == pc \in {"spawn", "join1", "join2", "close"} \/
             (pc \in Terminal /\ Len(sent) = 14)

\* C5: when the outbound connection of a CONNECT request succeeded, the
\* ConnectReply begins with 05 00 and carries the local address and port of
\* the outbound socket, big-endian, which are not those of the target
\* whenever the two differ; once sent it follows 05 02 01 00 on the wire.
C5_SuccessReplyIsLocalName ==
    remote.state = "connected" =>
        LET local == remote.name[1]
            target == remote.peer[1]
        IN  /\ req.cmd = 1 /\ req.address_type \in {1, 3}
            /\ SubSeq(reply, 1, 4) = <<5, 0, 0, req.address_type>>
            /\ SubSeq(reply, 5, 8) =
                  <<local.host.a, local.host.b, local.host.c, local.host.d>>
            /\ reply[9] * 256 + reply[10] = local.port
            /\ Len(reply) = 10
            /\ local.host # target.host =>
                  SubSeq(reply, 5, 8) #
                      <<target.host.a, target.host.b, target.host.c, target.host.d>>
            /\ local.port # target.port =>
                  reply[9] * 256 + reply[10] # target.port
            /\ ReplySent => sent = <<5, 2, 1, 0>> \o reply

C5_Witness ==
    /\ remote.state = "connected"
    /\ pc = "spawn"
    /\ remote.peer[1].port = 443
    /\ sent = <<5, 2, 1, 0, 5, 0, 0, 1, 10, 0, 0, 1, 18, 52>>

\* C6: when a CONNECT request got as far as the try block and the socket
\* creation, the bind or the connect failed, the ConnectReply is
\* 05 05 00 <address type of the request> followed by six zero bytes, and
\* that is what is sent.
C6_FailedReply ==
    (/\ req.cmd = 1
     /\ pc \in {"send_reply", "spawn", "join1", "join2", "close"} \/
            (pc \in Terminal /\ reply # <<>>)
     /\ remote.state # "connected") =>
        /\ reply = <<5, 5, 0, req.address_type, 0, 0, 0, 0, 0, 0>>
        /\ ReplySent => sent = <<5, 2, 1, 0>> \o reply

C6_Witness ==
    /\ remote.state = "refused"
    /\ pc = "spawn"
    /\ sent = <<5, 2, 1, 0, 5, 5, 0, 1, 0, 0, 0, 0, 0, 0>>

\* C7: when a connect request with version 5 carries a command other than
\* CONNECT, no outbound socket is ever created, no ConnectReply is built or
\* sent, no relay direction starts, and the handler ends with the client
\* socket closed.
C7_NonConnect ==
    (req.version = 5 /\ req.cmd # 1) =>
        /\ remote.state = "none"
        /\ reply = <<>>
        /\ sent = <<5, 2, 1, 0>>
        /\ ~RelayTouched
        /\ pc \in {"address", "port", "connect"} \union Terminal
        /\ pc \in Terminal => ~connOpen

C7_Witness ==
    /\ req.version = 5 /\ req.cmd = 2 /\ req.address_type = 1
    /\ req.port = 443
    /\ pc = "returned"
    /\ ~connOpen

\* both forward_tcp tasks were spawned and both have ended
RelayFinished == job[1] = "done" /\ job[2] = "done"

\* C8: when a session that relayed is over, the handler has closed both the
\* client socket and the outbound socket.
C8_BothStreamsClosed ==
    (pc = "returned" /\ RelayFinished) => (~connOpen /\ remote.closed)

\* while a spawned direction is still running, the handler is waiting in a
\* join and has closed nothing
C9_Open ==
    (job[1] # "unspawned" /\ ~RelayFinished) =>
        /\ connOpen /\ ~remote.closed
        /\ pc \in {"join1", "join2"}
        /\ \A o \in 1..2 :
              job[o] \in {"recv", "send"} => ENABLED (ForwardRecv(o) \/ ForwardSend(o))

\* the step in which direction d ends is a zero-byte read passed on or a
\* fault of d itself, and it leaves the other direction and both sockets alone
C9_EndStep ==
    \A d \in 1..2 :
        (job[d] # "done" /\ job'[d] = "done") =>
            /\ job'[3 - d] = job[3 - d]
            /\ relay'[3 - d] = relay[3 - d]
            /\ connOpen' /\ ~remote'.closed /\ pc' = pc
            /\ \/ relay'[d].ended = "fault"
               \/ relay'[d].ended = "eof" /\ job[d] = "send" /\ relay[d].data = <<>>

\* C9: during the relay neither socket is closed until both directions have
\* ended: when one direction ends before the other, both sockets stay open,
\* the other direction is untouched and can go on forwarding until its own
\* zero-byte read or fault, and the handler gets past its joins to the close
\* only when both have ended.
C9_CloseOnlyAfterBoth == []C9_Open /\ [][C9_EndStep]_vars

C9_Witness ==
    /\ pc = "join2"
    /\ relay[1].ended = "eof"
    /\ job[2] = "send" /\ relay[2].data # <<>> /\ relay[2].wrote # <<>>
    /\ connOpen

\* C10: in each direction the bytes written to the destination are at all
\* times a prefix of the bytes read from the source, whatever the split into
\* reads and the interleaving of the two directions; between two turns of the
\* loop nothing read is missing.
C10_RelayPrefix ==
    \A d \in 1..2 :
        /\ Len(relay[d].wrote) <= Len(relay[d].read)
        /\ relay[d].wrote = SubSeq(relay[d].read, 1, Len(relay[d].wrote))
        /\ job[d] = "recv" => relay[d].wrote = relay[d].read

C10_Witness ==
    /\ job[1] = "send"
    /\ relay[1].wrote = <<7>> /\ relay[1].data = <<8>>
    /\ relay[2].wrote = <<8, 7>>

\* a ConnectReply with a non-zero status is on the wire
FailureReplySent == Len(sent) = 14 /\ reply # <<>> /\ reply[2] # 0

\* C11: after a failure ConnectReply was sent the handler starts no relay
\* direction, its joins fall through, and it ends on its normal path, by
\* closing the client socket, not by an exception.
C11_FailedReplyEndsNormally ==
    FailureReplySent =>
        /\ ~RelayTouched
        /\ err = "none"
        /\ pc \in {"spawn", "join1", "join2", "close", "returned"}

\* C12: an exception that leaves the handler during the greeting, the
\* authentication, the connect request or the connect ends the session with
\* the client socket closed; a fault that is not a failed write adds no
\* byte to what was sent, and nothing is sent or relayed afterwards (an
\* aborted handler takes no step).
C12_AbortStep ==
    /\ pc # "aborted"
    /\ pc' = "aborted" =>
          /\ err' # "none" /\ ~connOpen'
          /\ job' = job /\ relay' = relay /\ ~RelayTouched
          /\ pc \notin {"select", "auth_reply", "send_reply"} => sent' = sent
          /\ Len(sent) <= Len(sent') /\ SubSeq(sent', 1, Len(sent)) = sent

C12_FaultAborts ==
    [](pc = "aborted" => (~connOpen /\ err # "none")) /\ [][C12_AbortStep]_vars

C12_Witness ==
    /\ pc = "aborted"
    /\ err = "AssertionError"
    /\ sent = <<5, 2, 1, 0>>
    /\ req.version = 4
    /\ ~connOpen

\* C13: a CONNECT request with address type 3 is decoded (length byte,
\* domain, port) without a fault in the decoding: such a session can only be
\* aborted by the transport (a failed or short read), never by the decoding
\* itself, and it goes on to the connect with the domain bound as address.
C13_DomainDecodes ==
    (req.version = 5 /\ req.cmd = 1 /\ req.address_type = 3) =>
        /\ pc = "aborted" => err \in {"OSError", "struct.error"}
        /\ pc \notin {"request", "address", "aborted"} => req.address # Unbound

\* C14: a connect request whose address type is neither 1 nor 3 is rejected:
\* no outbound socket is created, no ConnectReply is built or sent, and the
\* handler never gets to the connect with no address bound.
C14_UnsupportedTypeRejected ==
    (req.version = 5 /\ req.address_type \notin {0, 1, 3}) =>
        /\ remote.state = "none"
        /\ reply = <<>>
        /\ sent = <<5, 2, 1, 0>>
        /\ pc \notin {"send_reply", "spawn", "join1", "join2", "close"}
        /\ pc = "connect" => req.cmd # 1

\* the number of bytes the UTF-8 form of the decoded string s takes
RECURSIVE Utf8Len(_)
Utf8Len(s) ==
    IF s = <<>> THEN 0
    ELSE (IF s[1] < 128 THEN 1 ELSE 2) + Utf8Len(Tail(s))

\* C15: every handshake field is read whole, however the transport cuts the
\* client's bytes into chunks: whenever the handler has gone on to read the
\* bytes that follow a field (so the stream had not ended), the field it
\* decoded has the length the client announced; here for the username, once
\* the password length that follows it was read.
C15_FieldsReadWhole ==
    pc \in {"password", "auth_reply"} =>
        Utf8Len(auth.username) = auth.username_len

\* C16: in a relay direction a zero-byte read ends the direction and puts no
\* byte on the destination; the bytes on the destination grow only in the
\* step that follows a non-empty read, and then by bytes of that read.
C16_Step ==
    \A d \in 1..2 :
        /\ (job[d] = "send" /\ relay[d].data = <<>>) =>
              /\ relay'[d].wrote = relay[d].wrote
              /\ job'[d] \in {"send", "done"}
              /\ job'[d] = "done" => relay'[d].ended = "eof"
        /\ relay'[d].wrote # relay[d].wrote =>
              /\ job[d] = "send" /\ relay[d].data # <<>>
              /\ \E n \in 1..Len(relay[d].data) :
                    relay'[d].wrote = relay[d].wrote \o SubSeq(relay[d].data, 1, n)

C17_FaultStep ==
    \A d \in 1..2 :
        (relay[d].ended # "fault" /\ relay'[d].ended = "fault") =>
            /\ job'[d] = "done"
            /\ job'[3 - d] = job[3 - d] /\ relay'[3 - d] = relay[3 - d]
            /\ pc' = pc /\ err' = err /\ connOpen' = connOpen

C17_FaultStopsOneDirection ==
    [](job[1] # "unspawned" => (err = "none" /\ pc # "aborted"))
        /\ [][C17_FaultStep]_vars

C17_Witness ==
    /\ relay[1].ended = "fault"
    /\ relay[2].ended = "eof" /\ relay[2].wrote # <<>>
    /\ pc = "returned" /\ err = "none"

\* C18: a greeting header whose version is not 5 or whose method count is 0
\* aborts the session at once: no method and no auth request is read,
\* nothing is sent, and the client socket is closed.
C18_BadGreetingAborts ==
    (Len(header) = 2 /\ (header[1] # 5 \/ header[2] = 0)) =>
        /\ pc = "aborted" /\ err = "AssertionError"
        /\ methods = <<>>
        /\ auth.version = 0 /\ auth.result = "pending"
        /\ sent = <<>>
        /\ ~connOpen
        /\ ~RelayTouched

C18_Witness ==
    /\ header = <<5, 0>>
    /\ pc = "aborted"
    /\ sent = <<>>
    /\ ~connOpen

\* the state of section 4.2 the handler is in, as its place in the order
\* AwaitGreeting, AwaitAuth, AwaitConnectRequest, Connecting, Relaying, Closed
StateRank ==
    IF pc \in {"header", "methods", "select"} THEN 1
    ELSE IF pc \in {"auth_version", "username_len", "username", "password_len",
                    "password", "auth_reply"} THEN 2
    ELSE IF pc \in {"request", "address", "port"} THEN 3
    ELSE IF pc \in {"connect", "send_reply", "spawn"} THEN 4
    ELSE IF pc = "join1" /\ job[1] = "unspawned" THEN 4
    ELSE IF pc \in {"join1", "join2", "close"} THEN 5
    ELSE 6

\* the replies on the wire come in the order method selection, auth reply,
\* one ConnectReply of 10 bytes
RepliesInOrder ==
    /\ Len(sent) <= 14
    /\ Len(sent) >= 1 => sent[1] = 5
    /\ Len(sent) >= 2 => sent[2] = 2
    /\ Len(sent) >= 3 => sent[3] = 1
    /\ Len(sent) >= 4 => sent[4] \in {0, 255}
    /\ Len(sent) >= 5 => (sent[4] = 0 /\ sent[5] = 5)
    /\ Len(sent) >= 2 => StateRank >= 2 \/ pc = "aborted"
    /\ Len(sent) >= 4 => StateRank >= 3 \/ pc \in Terminal
    /\ Len(sent) >= 14 => StateRank >= 4

\* C19: the handler only moves forward through the states, one state at a
\* time, or leaves for Closed; Closed is terminal; and the replies are sent
\* in the order method selection, auth reply, single ConnectReply.
C19_Step ==
    /\ StateRank < 6
    /\ StateRank' \in {StateRank, StateRank + 1, 6}
    /\ StateRank = 5 => job[1] # "unspawned"
    /\ RepliesInOrder /\ RepliesInOrder'
    /\ Len(sent) <= Len(sent') /\ SubSeq(sent', 1, Len(sent)) = sent

C19_StatesInOrder == [][C19_Step]_vars

C19_Witness ==
    /\ pc = "returned"
    /\ RelayFinished
    /\ Len(sent) = 14
    /\ relay[1].wrote # <<>>

\* the two forward_tcp tasks have been spawned
Relaying == job[1] # "unspawned"

\* C20: under fair scheduling, with sources that end in a zero-byte read or
\* a fault, a session that is relaying ends with both directions finished,
\* the handler returned and the client socket closed; and while a direction
\* has not finished the handler stays in its joins with the client socket
\* open.
C20_RelayTerminates ==
    /\ [](Relaying /\ ~RelayFinished => pc \in {"join1", "join2"} /\ connOpen)
    /\ Relaying ~> (RelayFinished /\ pc = "returned" /\ err = "none" /\ ~connOpen)

C20_Witness ==
    /\ pc = "returned" /\ ~connOpen
    /\ relay[1].ended = "eof" /\ relay[1].read = <<>>
    /\ relay[2].ended = "fault" /\ relay[2].wrote = <<8>>

====
